---------------------------- MODULE Spec2Model ----------------------------
(***************************************************************************)
(* Model of the operator-resolution core of raf:                           *)
(*   - the declaration rules of the binary operators                       *)
(*     (src/op/declare/binary.cc), each a single-shot function over one    *)
(*     CallValues record;                                                  *)
(*   - the dialect dispatch pass (src/pass/dispatch_dialect.cc), a tree    *)
(*     rewrite of a function's operator references.                        *)
(*                                                                         *)
(* Scalars are kept exact: an integer n is n/1, a boolean is 0/1 or 1/1    *)
(* and a floating-point value is a reduced fraction num/den, so that the   *)
(* conversions and promotions of the host arithmetic are computed, not     *)
(* assumed.  The integer operands are small, far from the int64 range, so  *)
(* signed overflow (undefined in the host language) never occurs in the    *)
(* modelled runs; rounding of doubles is not modelled.                     *)
(***************************************************************************)
EXTENDS Integers, Sequences, FiniteSets, TLC

VARIABLES
    op,        \* the operator whose declaration rule is invoked on `call`
    call,      \* the CallValues record: callee, args, out, ctx
    status,    \* "idle" | "pending" | "returned" | "fatal"
    error,     \* message of the fatal error, "" when none
    fn,        \* the expression the dispatch pass works on (its latest result)
    src,       \* the expression handed to the latest run of the pass
    phase,     \* "idle" | "fresh" | "dispatched" | "redispatched"
    dev,       \* the ambient current device (Device::Current)
    registry,  \* the dialect registry consulted by OpDialect::Dispatch
    warned     \* whether the latest run logged the "skip" warning

vars == <<op, call, status, error, fn, src, phase, dev, registry, warned>>

-----------------------------------------------------------------------------
(* Bounds of the model                                                     *)

MaxRank == 2
MaxNodes == 3
MaxRegistered == 2

DimSizes == {0, 1, 2, 3}
IntData == {-7, 0, 3}
FloatData == {<<-7, 1>>, <<0, 1>>, <<3, 2>>}

-----------------------------------------------------------------------------
(* Exact arithmetic on fractions <<num, den>> with den > 0                 *)

Abs(n) == IF n < 0 THEN -n ELSE n

Sign(n) == IF n < 0 THEN -1 ELSE IF n = 0 THEN 0 ELSE 1

Max(a, b) == IF a >= b THEN a ELSE b

RECURSIVE GCD(_, _)
GCD(a, b) == IF b = 0 THEN a ELSE GCD(b, a % b)

Norm(n, d) ==
    LET s == IF d < 0 THEN -1 ELSE 1
        g == GCD(Abs(n), Abs(d))
    IN  <<(s * n) \div g, (s * d) \div g>>

RatAdd(a, b) == Norm(a[1] * b[2] + b[1] * a[2], a[2] * b[2])
RatSub(a, b) == Norm(a[1] * b[2] - b[1] * a[2], a[2] * b[2])
RatMul(a, b) == Norm(a[1] * b[1], a[2] * b[2])
RatDiv(a, b) == Norm(a[1] * b[2], a[2] * b[1])
RatLess(a, b) == a[1] * b[2] < b[1] * a[2]

(* Integer division of the host language: the quotient rounds toward zero. *)
TruncDiv(a, b) == Sign(a) * Sign(b) * (Abs(a) \div Abs(b))

(* fmod / % of the host language: a - b * trunc(a / b), on fractions.      *)
RatTruncQuot(a, b) == TruncDiv(a[1] * b[2], a[2] * b[1])

-----------------------------------------------------------------------------
(* Values                                                                  *)

NullValue == [kind |-> "null"]

OpValue(name) == [kind |-> "op", name |-> name]

IntValue(n) == [kind |-> "int", data |-> <<n, 1>>]

FloatValue(q) == [kind |-> "float", data |-> q]

BoolValue(b) == [kind |-> "bool", data |-> <<IF b THEN 1 ELSE 0, 1>>]

TensorValueAssemble(ctx, dtype, shape) ==
    [kind |-> "tensor", ctx |-> ctx, dtype |-> dtype, shape |-> shape]

DefaultCtx == "unknown(-1)"

(* Which branch of MNM_SWITCH_SCALAR binds the value: IntValueObj, then    *)
(* FloatValueObj, then BoolValueObj; "none" when no branch does.           *)
SwitchScalar(value) ==
    IF value.kind = "int" THEN "int"
    ELSE IF value.kind = "float" THEN "float"
    ELSE IF value.kind = "bool" THEN "bool"
    ELSE "none"

(* `v1->data op v2->data` followed by ScalarValue::make: the operands are  *)
(* int64_t, double or bool; the usual arithmetic conversions make the      *)
(* operation a double one when either operand is a double and an integer   *)
(* one otherwise (bool promotes to int); a comparison yields a bool.       *)
HostApply(hop, v1, v2) ==
    LET a == v1.data
        b == v2.data
        flt == v1.kind = "float" \/ v2.kind = "float"
        Arith(q) == IF flt THEN FloatValue(q) ELSE IntValue(q[1])
    IN  CASE hop = "+" -> Arith(RatAdd(a, b))
          [] hop = "-" -> Arith(RatSub(a, b))
          [] hop = "*" -> Arith(RatMul(a, b))
          [] hop = "/" -> IF flt THEN FloatValue(RatDiv(a, b))
                          ELSE IntValue(TruncDiv(a[1], b[1]))
          [] hop = "<" -> BoolValue(RatLess(a, b))
          [] hop = ">" -> BoolValue(RatLess(b, a))
          [] hop = "<=" -> BoolValue(~RatLess(b, a))
          [] hop = ">=" -> BoolValue(~RatLess(a, b))
          [] hop = "==" -> BoolValue(a = b)
          [] hop = "!=" -> BoolValue(a # b)

(* `s2->data == 0` on an int64_t, a double or a bool                       *)
DataIsZero(v) == v.data[1] = 0

-----------------------------------------------------------------------------
(* Outcomes of a declaration rule                                          *)

Fatal(c, msg) == [status |-> "fatal", error |-> msg, call |-> c]

Return(c) == [status |-> "returned", error |-> "", call |-> c]

FallThrough(c) == [status |-> "pending", error |-> "", call |-> c]

Defined(v) == v.kind # "null"

(* MNM_BINARY_SCALAR(op, x1, x2)                                           *)
BinaryScalarKeepCallee(c, hop, x1, x2) ==
    IF SwitchScalar(x1) # "none" /\ SwitchScalar(x2) # "none"
    THEN Return([c EXCEPT !.out = HostApply(hop, x1, x2)])
    ELSE FallThrough(c)

BinaryScalar(c, hop, x1, x2) ==
    IF SwitchScalar(x1) # "none" /\ SwitchScalar(x2) # "none"
    THEN Return([c EXCEPT !.callee = NullValue, !.out = HostApply(hop, x1, x2)])
    ELSE FallThrough(c)

(* One iteration of the loop of MakeBinaryTensor: the size written to      *)
(* oshape, or the "Cannot broadcast" branch.                               *)
BroadcastDimFirstWins(dim_1, dim_2) ==
    IF dim_1 = 1 THEN [ok |-> TRUE, dim |-> dim_2]
    ELSE [ok |-> TRUE, dim |-> dim_1]

BroadcastDimTakesFirst(dim_1, dim_2) ==
    IF dim_1 = 1 THEN [ok |-> TRUE, dim |-> dim_1]
    ELSE IF dim_2 = 1 THEN [ok |-> TRUE, dim |-> dim_1]
    ELSE IF dim_1 = dim_2 THEN [ok |-> TRUE, dim |-> dim_1]
    ELSE [ok |-> FALSE, dim |-> 0]

BroadcastDim(dim_1, dim_2) ==
    IF dim_1 = 1 THEN [ok |-> TRUE, dim |-> dim_2]
    ELSE IF dim_2 = 1 THEN [ok |-> TRUE, dim |-> dim_1]
    ELSE IF dim_1 = dim_2 THEN [ok |-> TRUE, dim |-> dim_1]
    ELSE [ok |-> FALSE, dim |-> 0]

(* MakeBinaryTensor(x1, x2): C index k is TLA+ index k + 1.                *)
MakeBinaryTensor(x1, x2) ==
    LET ndim_1 == Len(x1.shape)
        ndim_2 == Len(x2.shape)
        ndim == Max(ndim_1, ndim_2)
        dim_1(i) == IF i < ndim_1 THEN x1.shape[ndim_1 - i] ELSE 1
        dim_2(i) == IF i < ndim_2 THEN x2.shape[ndim_2 - i] ELSE 1
        step(i) == BroadcastDim(dim_1(i), dim_2(i))
    IN  IF \E i \in 0 .. ndim - 1 : ~step(i).ok
        THEN [thrown |-> TRUE, tv |-> NullValue]
        ELSE [thrown |-> FALSE,
              tv |-> TensorValueAssemble(x1.ctx, x1.dtype,
                                         [k \in 1 .. ndim |-> step(ndim - k).dim])]

(* MNM_BINARY_TENSOR(x1, x2)                                               *)
BinaryTensor(c, x1, x2) ==
    IF x1.kind = "tensor" /\ x2.kind = "tensor"
    THEN LET r == MakeBinaryTensor(x1, x2)
         IN  IF r.thrown THEN Fatal(c, "Cannot broadcast")
             ELSE Return([c EXCEPT !.out = r.tv, !.ctx = r.tv.ctx])
    ELSE FallThrough(c)

NotImplemented(c) == Fatal(c, "NotImplementedError")

ZeroDivision(c) == Fatal(c, "ZeroDivisionError: division by zero")

NoOutNoWhere(c) == ~Defined(c.args.out) /\ ~Defined(c.args.where)

(* The body shared by mnm.op.add, subtract and multiply: the scalar fold,  *)
(* then the tensor branch, then the NotImplementedError fall-through.      *)
ScalarThenTensor(c, hop) ==
    IF NoOutNoWhere(c)
    THEN LET s == BinaryScalar(c, hop, c.args.x1, c.args.x2)
             t == BinaryTensor(c, c.args.x1, c.args.x2)
         IN  IF s.status # "pending" THEN s
             ELSE IF t.status # "pending" THEN t
             ELSE NotImplemented(c)
    ELSE NotImplemented(c)

(* The body shared by the six comparison rules: the scalar fold only.      *)
ScalarOnly(c, hop) ==
    IF NoOutNoWhere(c)
    THEN LET s == BinaryScalar(c, hop, c.args.x1, c.args.x2)
         IN  IF s.status # "pending" THEN s ELSE NotImplemented(c)
    ELSE NotImplemented(c)

DeclareAdd(c) == ScalarThenTensor(c, "+")
DeclareSubtract(c) == ScalarThenTensor(c, "-")
DeclareMultiply(c) == ScalarThenTensor(c, "*")
DeclareLess(c) == ScalarOnly(c, "<")
DeclareGreater(c) == ScalarOnly(c, ">")
DeclareLessEqual(c) == ScalarOnly(c, "<=")
DeclareGreaterEqual(c) == ScalarOnly(c, ">=")
DeclareEqual(c) == ScalarOnly(c, "==")
DeclareNotEqual(c) == ScalarOnly(c, "!=")

(* mnm.op.divide                                                           *)
DeclareDivide(c) ==
    LET x1 == c.args.x1
        x2 == c.args.x2
    IN  IF NoOutNoWhere(c) /\ SwitchScalar(x1) # "none" /\ SwitchScalar(x2) # "none"
        THEN IF DataIsZero(x2) THEN ZeroDivision(c)
             ELSE Return([c EXCEPT !.callee = NullValue,
                                   !.out = HostApply("/", x1, x2)])
        ELSE NotImplemented(c)

(* int64_t a1 % a2: the remainder of the truncating division               *)
IntRemainderFloor(a1, a2) == a1 - a2 * (a1 \div a2)

IntRemainder(a1, a2) == a1 - a2 * TruncDiv(a1, a2)

(* fmod(a1, a2) on doubles                                                 *)
FMod(a1, a2) == RatSub(a1, RatMul(a2, <<RatTruncQuot(a1, a2), 1>>))

(* The two branches of mnm.op.mod after the zero test                      *)
ModResult(s1, s2) ==
    IF s1.kind = "float" \/ s2.kind = "float"
    THEN FloatValue(FMod(s1.data, s2.data))
    ELSE IntValue(IntRemainder(s1.data[1], s2.data[1]))

(* mnm.op.mod                                                              *)
DeclareModCalleeFirst(c) ==
    LET x1 == c.args.x1
        x2 == c.args.x2
        folded == [c EXCEPT !.callee = NullValue]
    IN  IF NoOutNoWhere(c) /\ SwitchScalar(x1) # "none" /\ SwitchScalar(x2) # "none"
        THEN IF DataIsZero(x2) THEN ZeroDivision(folded)
             ELSE Return([folded EXCEPT !.out = ModResult(x1, x2)])
        ELSE NotImplemented(c)

DeclareMod(c) ==
    LET x1 == c.args.x1
        x2 == c.args.x2
    IN  IF NoOutNoWhere(c) /\ SwitchScalar(x1) # "none" /\ SwitchScalar(x2) # "none"
        THEN IF DataIsZero(x2) THEN ZeroDivision(c)
             ELSE Return([c EXCEPT !.callee = NullValue, !.out = ModResult(x1, x2)])
        ELSE NotImplemented(c)

(* mnm.op.add_dx                                                           *)
DxOffsetNone(x, dy) == 0

DxOffset(x, dy) == Len(dy.shape) - Len(x.shape)

DeclareAddDx(c) ==
    LET x == c.args.x1
        dy == c.args.dy
        offset == DxOffset(x, dy)
    IN  IF ~(Len(x.shape) <= Len(dy.shape))
        THEN Fatal(c, "Check failed: x->ndim <= dy->ndim")
        ELSE IF \E i \in 0 .. Len(x.shape) - 1 :
                    ~(x.shape[i + 1] = 1 \/ x.shape[i + 1] = dy.shape[i + offset + 1])
        THEN Fatal(c, "Check failed: x->shape[i] == 1 || x->shape[i] == dy->shape[i + offset]")
        ELSE Return([c EXCEPT !.ctx = x.ctx,
                              !.out = TensorValueAssemble(x.ctx, x.dtype, x.shape)])

-----------------------------------------------------------------------------
(* The invocations the rules are run on                                    *)

TensorOps == {"mnm.op.add", "mnm.op.subtract", "mnm.op.multiply"}

ComparisonOps == {"mnm.op.less", "mnm.op.greater", "mnm.op.less_equal",
                  "mnm.op.greater_equal", "mnm.op.equal", "mnm.op.not_equal"}

UfuncOps == TensorOps \cup ComparisonOps \cup {"mnm.op.divide", "mnm.op.mod"}

Shapes == UNION {[1 .. r -> DimSizes] : r \in 0 .. MaxRank}

TensorMetas == {<<"cpu(0)", "float32">>, <<"cuda(0)", "int64">>}

Tensors == {TensorValueAssemble(m[1], m[2], s) : m \in TensorMetas, s \in Shapes}

Scalars == {IntValue(n) : n \in IntData} \cup {FloatValue(q) : q \in FloatData}
           \cup {BoolValue(b) : b \in BOOLEAN}

Values == Scalars \cup Tensors

OptionalOperands == {NullValue, TensorValueAssemble("cpu(0)", "float32", <<>>)}

NewCall(o, args) ==
    [callee |-> OpValue(o), args |-> args, out |-> NullValue, ctx |-> DefaultCtx]

-----------------------------------------------------------------------------
(* Expressions of the IR: operator references, functions and calls         *)

OpNode(name) == [kind |-> "op", name |-> name]

FunctionNode(prim, body) == [kind |-> "fn", prim |-> prim, body |-> body]

CallNode(callee, args) == [kind |-> "call", op |-> callee, args |-> args]

NullExpr == [kind |-> "null"]

BaseOps == {"mnm.op.add"}

DialectOps == {"mnm.op.cudnn.add", "mnm.op.tvm.add"}

Ops == BaseOps \cup DialectOps

DevTypes == {"kUnknown", "kCPU", "kCUDA"}

DevIds == {-1, 0}

Devices == [device_type : DevTypes, device_id : DevIds]

(* IsDialectOp(op)                                                         *)
IsDialectOp(o) == o.name \in DialectOps

(* OpDialect::Dispatch(op, dev_type, {}): the registered dialect op of the *)
(* base op on the device type, or an undefined reference.                  *)
OpDialectDispatch(reg, o, dev_type) ==
    IF \E e \in reg : e.op = o.name /\ e.dev_type = dev_type
    THEN OpNode((CHOOSE e \in reg : e.op = o.name /\ e.dev_type = dev_type).dialect)
    ELSE NullExpr

(* DispatchMutator::VisitExpr_ on an OpNode                                *)
VisitOpNoDialectTest(o, reg, dev_type) ==
    LET dialect_op == OpDialectDispatch(reg, o, dev_type)
    IN  IF dialect_op.kind # "null" THEN dialect_op ELSE o

VisitOp(o, reg, dev_type) ==
    IF ~IsDialectOp(o)
    THEN LET dialect_op == OpDialectDispatch(reg, o, dev_type)
         IN  IF dialect_op.kind # "null" THEN dialect_op ELSE o
    ELSE o

(* node->HasNonzeroAttr(attr::kPrimitive)                                  *)
HasPrimitiveAttrNever(node) == FALSE

HasPrimitiveAttr(node) == node.prim

(* DispatchMutator(dev_type).Mutate(expr): the operator references and the *)
(* functions go through the overrides above, a call is rebuilt from its    *)
(* mutated callee and arguments.                                           *)
RECURSIVE Mutate(_, _, _)
Mutate(e, reg, dev_type) ==
    CASE e.kind = "op" -> VisitOp(e, reg, dev_type)
      [] e.kind = "fn" ->
            IF HasPrimitiveAttr(e) THEN e
            ELSE FunctionNode(e.prim, Mutate(e.body, reg, dev_type))
      [] e.kind = "call" ->
            CallNode(Mutate(e.op, reg, dev_type),
                     [i \in 1 .. Len(e.args) |-> Mutate(e.args[i], reg, dev_type)])

(* The test of Dispatch on Device::Current(true)                           *)
DeviceUnsetBothOnly(d) == d.device_type = "kUnknown" /\ d.device_id < 0

DeviceUnset(d) == d.device_type = "kUnknown" \/ d.device_id < 0

(* Dispatch(expr)                                                          *)
Dispatch(expr, d, reg) ==
    IF DeviceUnset(d)
    THEN [expr |-> expr, warned |-> TRUE]
    ELSE [expr |-> Mutate(expr, reg, d.device_type), warned |-> FALSE]

(* The expressions of exactly n nodes                                      *)
RECURSIVE ExprsOfSize(_)
ExprsOfSize(n) ==
    IF n = 1 THEN {OpNode(o) : o \in Ops}
    ELSE {FunctionNode(p, b) : p \in BOOLEAN, b \in ExprsOfSize(n - 1)}
         \cup UNION {{CallNode(f, <<a>>) : f \in ExprsOfSize(k), a \in ExprsOfSize(n - 1 - k)} :
                     k \in 1 .. n - 2}

Functions ==
    {FunctionNode(p, b) : p \in BOOLEAN, b \in UNION {ExprsOfSize(n) : n \in 1 .. MaxNodes}}

RegistryKeys == Ops \X (DevTypes \ {"kUnknown"})

Entry(k, d) == [op |-> k[1], dev_type |-> k[2], dialect |-> d]

(* The registries of at most MaxRegistered dialect registrations           *)
Registries ==
    {r \in SUBSET {Entry(k, d) : k \in RegistryKeys, d \in DialectOps} :
        /\ Cardinality(r) <= MaxRegistered
        /\ \A e1, e2 \in r : (e1.op = e2.op /\ e1.dev_type = e2.dev_type) => e1 = e2}

-----------------------------------------------------------------------------
(* The state machines                                                      *)

DeclIdle ==
    /\ op = "none"
    /\ call = NullValue
    /\ status = "idle"
    /\ error = ""

PassIdle ==
    /\ fn = NullExpr
    /\ src = NullExpr
    /\ phase = "idle"
    /\ dev = [device_type |-> "kUnknown", device_id |-> -1]
    /\ registry = {}
    /\ warned = FALSE

InitDeclare ==
    /\ \/ \E o \in UfuncOps, x1 \in Values, x2 \in Values,
             out \in OptionalOperands, where \in OptionalOperands :
             /\ op = o
             /\ call = NewCall(o, [x1 |-> x1, x2 |-> x2, out |-> out, where |-> where])
       \/ \E x1 \in Tensors, dy \in Tensors :
             /\ op = "mnm.op.add_dx"
             /\ call = NewCall("mnm.op.add_dx", [x1 |-> x1, dy |-> dy])
    /\ status = "pending"
    /\ error = ""
    /\ PassIdle

InitDispatch ==
    /\ fn \in Functions
    /\ src = fn
    /\ phase = "fresh"
    /\ dev \in Devices
    /\ registry \in Registries
    /\ warned = FALSE
    /\ DeclIdle

(* Running the rule registered for `name` on the pending call              *)
Declare(name, r) ==
    /\ status = "pending"
    /\ op = name
    /\ call' = r.call
    /\ status' = r.status
    /\ error' = r.error
    /\ UNCHANGED <<op, fn, src, phase, dev, registry, warned>>

Add == Declare("mnm.op.add", DeclareAdd(call))
Subtract == Declare("mnm.op.subtract", DeclareSubtract(call))
Multiply == Declare("mnm.op.multiply", DeclareMultiply(call))
Divide == Declare("mnm.op.divide", DeclareDivide(call))
Mod == Declare("mnm.op.mod", DeclareMod(call))
Less == Declare("mnm.op.less", DeclareLess(call))
Greater == Declare("mnm.op.greater", DeclareGreater(call))
LessEqual == Declare("mnm.op.less_equal", DeclareLessEqual(call))
GreaterEqual == Declare("mnm.op.greater_equal", DeclareGreaterEqual(call))
Equal == Declare("mnm.op.equal", DeclareEqual(call))
NotEqual == Declare("mnm.op.not_equal", DeclareNotEqual(call))
AddDx == Declare("mnm.op.add_dx", DeclareAddDx(call))

(* One run of the DispatchDialect pass on the current function             *)
DispatchDialect ==
    /\ phase # "idle"
    /\ LET r == Dispatch(fn, dev, registry)
       IN  /\ fn' = r.expr
           /\ warned' = r.warned
    /\ src' = fn
    /\ phase' = IF phase = "fresh" THEN "dispatched" ELSE "redispatched"
    /\ UNCHANGED <<dev, registry, op, call, status, error>>

NextDeclare ==
    \/ Add \/ Subtract \/ Multiply \/ Divide \/ Mod
    \/ Less \/ Greater \/ LessEqual \/ GreaterEqual \/ Equal \/ NotEqual
    \/ AddDx

NextDispatch == DispatchDialect

SpecDeclare == InitDeclare /\ [][NextDeclare]_vars

SpecDispatch == InitDispatch /\ [][NextDispatch]_vars

Init == InitDeclare \/ InitDispatch

Next == NextDeclare \/ NextDispatch

Spec == Init /\ [][Next]_vars

-----------------------------------------------------------------------------
(* Vocabulary of the properties                                            *)

Finished == status \in {"returned", "fatal"}

IsScalar(v) == v.kind \in {"int", "float", "bool"}

BothScalars == IsScalar(call.args.x1) /\ IsScalar(call.args.x2)

BothTensors == call.args.x1.kind = "tensor" /\ call.args.x2.kind = "tensor"

NothingSupplied == call.args.out = NullValue /\ call.args.where = NullValue

(* The call record as it was handed to the rule                            *)
Untouched == call = NewCall(op, call.args)

(* The size of `shape` at position k of a right-aligned shape of `rank`    *)
(* dimensions, a missing leading dimension counting as 1.                  *)
AlignedDim(shape, rank, k) ==
    IF k > rank - Len(shape) THEN shape[k - (rank - Len(shape))] ELSE 1

OutRank == Max(Len(call.args.x1.shape), Len(call.args.x2.shape))

D1(k) == AlignedDim(call.args.x1.shape, OutRank, k)

D2(k) == AlignedDim(call.args.x2.shape, OutRank, k)

Broadcastable == \A k \in 1 .. OutRank : D1(k) = D2(k) \/ D1(k) = 1 \/ D2(k) = 1

Mismatched == \E k \in 1 .. OutRank : D1(k) # D2(k) /\ D1(k) # 1 /\ D2(k) # 1

(* C1, as stated: on broadcastable tensor operands of add, subtract and    *)
(* multiply (no out/where) the output has rank max(rank s1, rank s2) and   *)
(* at every position the max of the two aligned sizes.                     *)
C1_MaxOfAligned ==
    (Finished /\ op \in TensorOps /\ BothTensors /\ NothingSupplied /\ Broadcastable)
    => /\ status = "returned"
       /\ call.out.kind = "tensor"
       /\ Len(call.out.shape) = OutRank
       /\ \A k \in 1 .. OutRank : call.out.shape[k] = Max(D1(k), D2(k))

(* C1, amended: as above, but the size at a position is the max of the two *)
(* aligned sizes only when neither is 0; when either is 0 (0 with 0, or 0  *)
(* with 1) the output size there is 0.                                     *)
C1_BroadcastShape ==
    (Finished /\ op \in TensorOps /\ BothTensors /\ NothingSupplied /\ Broadcastable)
    => /\ status = "returned"
       /\ call.out.kind = "tensor"
       /\ Len(call.out.shape) = OutRank
       /\ \A k \in 1 .. OutRank :
            call.out.shape[k] = IF D1(k) = 0 \/ D2(k) = 0 THEN 0 ELSE Max(D1(k), D2(k))

C1_Witness ==
    /\ status = "returned"
    /\ op \in TensorOps
    /\ BothTensors
    /\ Len(call.args.x1.shape) < Len(call.args.x2.shape)
    /\ \E k \in 1 .. OutRank : D1(k) = 1 /\ D2(k) = 2 /\ call.out.shape[k] = 2
    /\ \E k \in 1 .. OutRank : D1(k) = 1 /\ D2(k) = 0 /\ call.out.shape[k] = 0

(* The host operator each folding rule applies                             *)
HostOperatorOf(o) ==
    CASE o = "mnm.op.add" -> "+"
      [] o = "mnm.op.subtract" -> "-"
      [] o = "mnm.op.multiply" -> "*"
      [] o = "mnm.op.divide" -> "/"
      [] o = "mnm.op.less" -> "<"
      [] o = "mnm.op.greater" -> ">"
      [] o = "mnm.op.less_equal" -> "<="
      [] o = "mnm.op.greater_equal" -> ">="
      [] o = "mnm.op.equal" -> "=="
      [] o = "mnm.op.not_equal" -> "!="

FoldingOps == TensorOps \cup ComparisonOps \cup {"mnm.op.divide"}

(* C2: on two scalars of any kinds (no out/where; a non-zero divisor for   *)
(* divide) each arithmetic and comparison rule returns with call.out the   *)
(* host operator applied to the unwrapped values and call.callee null.     *)
C2_ScalarFolding ==
    (/\ Finished
     /\ op \in FoldingOps
     /\ BothScalars
     /\ NothingSupplied
     /\ (op = "mnm.op.divide" => call.args.x2.data[1] # 0))
    => /\ status = "returned"
       /\ call.callee = NullValue
       /\ call.out = HostApply(HostOperatorOf(op), call.args.x1, call.args.x2)
       /\ call.ctx = DefaultCtx

C2_Witness ==
    /\ status = "returned"
    /\ op = "mnm.op.add"
    /\ call.args.x1 = IntValue(3)
    /\ call.args.x2 = FloatValue(<<3, 2>>)
    /\ call.out = FloatValue(<<9, 2>>)
    /\ call.callee = NullValue

(* C6: add_dx with rank(p) <= rank(g) returns iff every p[i] is 1 or       *)
(* equals g[i + rank(g) - rank(p)]; on return call.out is a tensor of the  *)
(* parameter's shape, dtype and device and call.ctx is its device; with    *)
(* rank(p) > rank(g) or a failing dimension the rule is fatal and call.out *)
(* is not set.                                                             *)
C6_GradientShape ==
    (Finished /\ op = "mnm.op.add_dx")
    => LET p == call.args.x1.shape
           g == call.args.dy.shape
           fits == Len(p) <= Len(g)
           accepted == fits /\ \A i \in 1 .. Len(p) :
                                  p[i] = 1 \/ p[i] = g[i + Len(g) - Len(p)]
       IN  /\ fits => (status = "returned" <=> accepted)
           /\ status = "returned" =>
                 /\ call.out = [kind |-> "tensor", ctx |-> call.args.x1.ctx,
                                dtype |-> call.args.x1.dtype, shape |-> p]
                 /\ call.ctx = call.args.x1.ctx
           /\ ~accepted => (status = "fatal" /\ call.out = NullValue)

C6_Witness ==
    /\ status = "returned"
    /\ op = "mnm.op.add_dx"
    /\ call.args.x1.shape = <<1>>
    /\ call.args.dy.shape = <<0, 2>>
    /\ call.args.x1.ctx = "cuda(0)"
    /\ call.args.dy.ctx = "cpu(0)"
    /\ call.out.shape = <<1>>
    /\ call.ctx = "cuda(0)"

(* C7: divide and mod on scalars with a zero divisor (integer 0, float     *)
(* 0.0, boolean false), no out/where: fatal with the division-by-zero      *)
(* error, call.out and call.callee not written.                            *)
C7_ZeroDivisor ==
    (/\ Finished
     /\ op \in {"mnm.op.divide", "mnm.op.mod"}
     /\ BothScalars
     /\ NothingSupplied
     /\ call.args.x2.data[1] = 0)
    => /\ status = "fatal"
       /\ error = "ZeroDivisionError: division by zero"
       /\ Untouched

C7_Witness ==
    /\ status = "fatal"
    /\ op = "mnm.op.mod"
    /\ call.args.x1 = FloatValue(<<3, 2>>)
    /\ call.args.x2 = BoolValue(FALSE)
    /\ error = "ZeroDivisionError: division by zero"

RatAbs(q) == <<Abs(q[1]), q[2]>>

(* r is the integer remainder of a by b whose quotient rounds toward zero  *)
IsTruncatingRemainder(r, a, b) ==
    /\ r.kind = "int"
    /\ Abs(r.data[1]) < Abs(b)
    /\ (r.data[1] = 0 \/ Sign(r.data[1]) = Sign(a))
    /\ (a - r.data[1]) % Abs(b) = 0

(* r is the floating remainder of a by b: a - r is a whole multiple of b,  *)
(* |r| < |b| and r has the sign of a                                       *)
IsFloatingRemainder(r, a, b) ==
    /\ r.kind = "float"
    /\ RatLess(RatAbs(r.data), RatAbs(b))
    /\ (r.data[1] = 0 \/ Sign(r.data[1]) = Sign(a[1]))
    /\ RatDiv(RatSub(a, r.data), b)[2] = 1

ModFolds ==
    /\ Finished
    /\ op = "mnm.op.mod"
    /\ BothScalars
    /\ NothingSupplied
    /\ call.args.x2.data[1] # 0

(* C8, as stated: mod folds to the truncating integer remainder when both  *)
(* operands are integers and to the floating remainder for every other     *)
(* combination of scalar kinds; call.callee becomes null.                  *)
C8_FloatUnlessBothInt ==
    ModFolds
    => LET a == call.args.x1
           b == call.args.x2
       IN  /\ status = "returned"
           /\ call.callee = NullValue
           /\ IF a.kind = "int" /\ b.kind = "int"
              THEN IsTruncatingRemainder(call.out, a.data[1], b.data[1])
              ELSE IsFloatingRemainder(call.out, a.data, b.data)

(* C8, amended: mod folds to the floating remainder when at least one      *)
(* operand is a float, and to the truncating integer remainder otherwise   *)
(* (integers and booleans, a boolean counting as 0 or 1); call.callee      *)
(* becomes null.                                                           *)
C8_ModTypeRule ==
    ModFolds
    => LET a == call.args.x1
           b == call.args.x2
       IN  /\ status = "returned"
           /\ call.callee = NullValue
           /\ IF a.kind = "float" \/ b.kind = "float"
              THEN IsFloatingRemainder(call.out, a.data, b.data)
              ELSE IsTruncatingRemainder(call.out, a.data[1], b.data[1])

C8_Witness ==
    /\ status = "returned"
    /\ op = "mnm.op.mod"
    /\ call.args.x1 = IntValue(-7)
    /\ call.args.x2 = IntValue(3)
    /\ call.out = IntValue(-1)
    /\ call.callee = NullValue

(* C9, as stated: on two tensors with a position whose sizes differ and    *)
(* are both not 1, add, subtract and multiply fail with the shape-mismatch *)
(* error and leave call.out, call.ctx and call.callee as they were.        *)
C9_AlwaysShapeMismatch ==
    (Finished /\ op \in TensorOps /\ BothTensors /\ Mismatched)
    => /\ status = "fatal"
       /\ error = "Cannot broadcast"
       /\ Untouched

(* C9, amended: on such a pair the rule always fails fatally and leaves    *)
(* call.out, call.ctx and call.callee as they were; the error is the       *)
(* shape mismatch when no out/where operand is supplied and the            *)
(* not-implemented error when one is.                                      *)
C9_MismatchFatal ==
    (Finished /\ op \in TensorOps /\ BothTensors /\ Mismatched)
    => /\ status = "fatal"
       /\ error = IF NothingSupplied THEN "Cannot broadcast" ELSE "NotImplementedError"
       /\ Untouched

C9_Witness ==
    /\ status = "fatal"
    /\ error = "Cannot broadcast"
    /\ op \in TensorOps
    /\ call.args.x1.shape = <<2, 3>>
    /\ call.args.x2.shape = <<3, 3>>
    /\ Untouched

-----------------------------------------------------------------------------
(* Positions in an expression: the path of child indices from the root.    *)
(* The body is child 1 of a function; the callee is child 1 of a call and  *)
(* its i-th argument child i + 1.                                          *)

Children(e) ==
    CASE e.kind = "fn" -> <<e.body>>
      [] e.kind = "call" -> <<e.op>> \o e.args
      [] OTHER -> <<>>

RECURSIVE Paths(_)
Paths(e) ==
    {<<>>} \cup UNION {{<<i>> \o q : q \in Paths(Children(e)[i])} :
                       i \in 1 .. Len(Children(e))}

RECURSIVE At(_, _)
At(e, q) ==
    IF q = <<>> THEN e
    ELSE IF Head(q) \in 1 .. Len(Children(e)) THEN At(Children(e)[Head(q)], Tail(q))
    ELSE NullExpr

IsPrimitiveFunction(e) == e.kind = "fn" /\ e.prim

(* Position q of e lies inside a function marked primitive                 *)
InsidePrimitive(e, q) ==
    \E n \in 0 .. Len(q) - 1 : IsPrimitiveFunction(At(e, SubSeq(q, 1, n)))

DeviceActive == dev.device_type # "kUnknown" /\ dev.device_id >= 0

PassRan == phase \in {"dispatched", "redispatched"}

(* The dialect ops registered for operator `name` on the current device    *)
Registered(name) ==
    {e.dialect : e \in {x \in registry : x.op = name /\ x.dev_type = dev.device_type}}

(* C3: with an active device, an operator reference outside every          *)
(* primitive function that is not a dialect op is replaced by the op the   *)
(* registry holds for (op, current device type), and kept when it holds    *)
(* none; a reference to a dialect op is never replaced.                    *)
C3_PerOperatorRule ==
    (PassRan /\ DeviceActive)
    => \A q \in Paths(src) :
          At(src, q).kind = "op"
          => LET o == At(src, q)
             IN  IF o.name \in DialectOps THEN At(fn, q) = o
                 ELSE ~InsidePrimitive(src, q)
                      => IF Registered(o.name) = {} THEN At(fn, q) = o
                         ELSE At(fn, q).kind = "op" /\ At(fn, q).name \in Registered(o.name)

C3_Witness ==
    /\ phase = "dispatched"
    /\ DeviceActive
    /\ \E q \in Paths(src) :
          /\ At(src, q) = OpNode("mnm.op.add")
          /\ ~InsidePrimitive(src, q)
          /\ At(fn, q) = OpNode("mnm.op.cudnn.add")
    /\ \E q \in Paths(src) :
          /\ At(src, q) = OpNode("mnm.op.cudnn.add")
          /\ ~InsidePrimitive(src, q)
          /\ Registered("mnm.op.cudnn.add") = {"mnm.op.tvm.add"}
          /\ At(fn, q) = OpNode("mnm.op.cudnn.add")

(* C4: every sub-function marked primitive, at any depth and the top-level *)
(* function included, is the same after the pass as before.                *)
C4_PrimitivePreserved ==
    PassRan
    => \A q \in Paths(src) : IsPrimitiveFunction(At(src, q)) => At(fn, q) = At(src, q)

C4_Witness ==
    /\ phase = "dispatched"
    /\ DeviceActive
    /\ \E q \in Paths(src) :
          /\ q # <<>>
          /\ At(src, q) = FunctionNode(TRUE, OpNode("mnm.op.add"))
          /\ At(fn, q) = At(src, q)
    /\ Registered("mnm.op.add") # {}

(* C5: the pass applied to its own output returns that output.             *)
C5_Idempotent == phase = "redispatched" => fn = src

C5_Witness ==
    /\ phase = "redispatched"
    /\ DeviceActive
    /\ fn = src
    /\ \E q \in Paths(src) :
          /\ At(src, q).kind = "op"
          /\ ~InsidePrimitive(src, q)
          /\ At(src, q).name \in DialectOps
          /\ Registered(At(src, q).name) # {}
          /\ ~(At(src, q).name \in Registered(At(src, q).name))

(* C10: with a device of unknown type or negative index a run of the pass  *)
(* returns its input, logs the warning, and changes neither the registry   *)
(* nor the device.                                                         *)
C10_UnsetDeviceNoOp ==
    [][(phase # "idle" /\ ~DeviceActive)
       => (fn' = fn /\ warned' /\ registry' = registry /\ dev' = dev)]_vars

C10_Witness ==
    /\ phase = "dispatched"
    /\ dev = [device_type |-> "kCPU", device_id |-> -1]
    /\ warned
    /\ fn = src
    /\ \E q \in Paths(src) :
          /\ At(src, q) = OpNode("mnm.op.add")
          /\ ~InsidePrimitive(src, q)
          /\ Registered("mnm.op.add") # {}

====
